---- MODULE Spec2Model ----
(***************************************************************************)
(* Model of the ICM equity engine of mtt-solver (class ICMCalculator).     *)
(*                                                                         *)
(* JavaScript numbers are modelled as exact rationals extended with the    *)
(* IEEE-754 special values: a number is a pair <<n, d>>, in lowest terms   *)
(* with d > 0 when it is finite, <<1, 0>> for Infinity, <<-1, 0>> for      *)
(* -Infinity and <<0, 0>> for NaN.  Division by zero, Infinity and NaN     *)
(* behave as in IEEE-754; the rounding of finite results is not modelled.  *)
(* Every divisor of the engine is a sum of non-negative terms, so a        *)
(* negative zero never reaches a division.                                 *)
(***************************************************************************)
EXTENDS Integers, Sequences, FiniteSets, Bags, TLC

(***************************************************************************)
(* Bounds of the explored inputs.                                          *)
(***************************************************************************)
MaxStack == 2
MaxPayouts == 3
\* the numbers of players explored; the exact equities of four players
\* exceed the integers of the model checker
PlayerCounts == 0 .. 3
StackValues == 0 .. MaxStack
\* an equity is linear in the payouts, so a zero and one non-zero prize span them
PayoutValues == {0, 3}

(***************************************************************************)
(* Numbers.                                                                *)
(***************************************************************************)
NaN == <<0, 0>>
Infinity == <<1, 0>>
NegInfinity == <<-1, 0>>

Abs(i) == IF i < 0 THEN -i ELSE i

Sgn(i) == IF i > 0 THEN 1 ELSE IF i < 0 THEN -1 ELSE 0

RECURSIVE GCD(_, _)
GCD(a, b) == IF b = 0 THEN a ELSE GCD(b, a % b)

\* the finite number n/d (d > 0), in lowest terms
Norm(n, d) == LET g == GCD(Abs(n), d) IN <<n \div g, d \div g>>

Num(i) == <<i, 1>>

Zero == Num(0)

One == Num(1)

IsNaN(x) == x = NaN

IsFinite(x) == x[2] # 0

\* x + y
Add(x, y) ==
    IF IsFinite(x) /\ IsFinite(y)
    THEN LET g == GCD(x[2], y[2])
         IN Norm(x[1] * (y[2] \div g) + y[1] * (x[2] \div g), (x[2] \div g) * y[2])
    ELSE IF IsNaN(x) \/ IsNaN(y) THEN NaN
    ELSE IF IsFinite(x) THEN y
    ELSE IF IsFinite(y) THEN x
    ELSE IF x = y THEN x ELSE NaN

Neg(x) == <<-x[1], x[2]>>

\* x - y
Sub(x, y) == Add(x, Neg(y))

\* x * y
Mul(x, y) ==
    IF IsFinite(x) /\ IsFinite(y)
    THEN LET g1 == GCD(Abs(x[1]), y[2])
             g2 == GCD(Abs(y[1]), x[2])
         IN <<(x[1] \div g1) * (y[1] \div g2), (x[2] \div g2) * (y[2] \div g1)>>
    ELSE IF IsNaN(x) \/ IsNaN(y) THEN NaN
    ELSE IF Sgn(x[1]) * Sgn(y[1]) = 0 THEN NaN
    ELSE <<Sgn(x[1]) * Sgn(y[1]), 0>>

\* x / y
Div(x, y) ==
    IF IsNaN(x) \/ IsNaN(y) THEN NaN
    ELSE IF IsFinite(x) /\ IsFinite(y)
    THEN IF y[1] = 0
         THEN IF x[1] = 0 THEN NaN ELSE <<Sgn(x[1]), 0>>
         ELSE Mul(x, <<Sgn(y[1]) * y[2], Abs(y[1])>>)
    ELSE IF IsFinite(x) THEN Zero
    ELSE IF IsFinite(y) THEN <<x[1] * (IF y[1] < 0 THEN -1 ELSE 1), 0>>
    ELSE NaN

\* x < y: false as soon as either side is NaN; finite numbers are compared
\* by their integer parts, then by their fractional parts
Less(x, y) ==
    /\ ~IsNaN(x)
    /\ ~IsNaN(y)
    /\ x # y
    /\ IF IsFinite(x) /\ IsFinite(y)
       THEN \/ x[1] \div x[2] < y[1] \div y[2]
            \/ /\ x[1] \div x[2] = y[1] \div y[2]
               /\ (x[1] % x[2]) * y[2] < (y[1] % y[2]) * x[2]
       ELSE IF IsFinite(x) THEN y = Infinity
       ELSE IF IsFinite(y) THEN x = NegInfinity
       ELSE x = NegInfinity

\* the truthiness `x || 0` tests: 0 and NaN (and undefined) are falsy
Truthy(x) == ~IsNaN(x) /\ x # Zero

\* x || 0
OrZero(x) == IF Truthy(x) THEN x ELSE Zero

(***************************************************************************)
(* Arrays: a JavaScript array is a sequence, indexed from 0 by At.         *)
(***************************************************************************)
\* s[k]: reading past the end yields undefined, which every arithmetic
\* operator and `||` of the engine treats as NaN
At(s, k) == IF k \in 0 .. (Len(s) - 1) THEN s[k + 1] ELSE NaN

\* the array literal of the elements f[1], f[2], ...
Array(f) == SubSeq(f, 1, Len(f))

\* s.reduce((sum, x) => sum + x, 0)
RECURSIVE SumSeq(_)
SumSeq(s) == IF s = <<>> THEN Zero ELSE Add(SumSeq(SubSeq(s, 1, Len(s) - 1)), s[Len(s)])

\* s.filter((_, index) => index !== i)
RemoveAt(s, i) ==
    IF i \in 0 .. (Len(s) - 1)
    THEN Array([k \in 1 .. (Len(s) - 1) |-> IF k <= i THEN s[k] ELSE s[k + 1]])
    ELSE s

\* s.slice(0, k)
Slice(s, k) == SubSeq(s, 1, IF k < Len(s) THEN k ELSE Len(s))

Min(a, b) == IF a < b THEN a ELSE b

\* the array of numbers of an array of integers
Nums(s) == Array([k \in 1 .. Len(s) |-> Num(s[k])])

(***************************************************************************)
(* ICMCalculator.                                                          *)
(***************************************************************************)
\* calculateEliminationProbabilities without `probs.map(prob => prob / sum)`
calculateEliminationProbabilitiesRaw(stacks_) ==
    Array([i \in 1 .. Len(stacks_) |->
             LET otherStacks == RemoveAt(stacks_, i - 1)
                 harmonicMean ==
                     Div(Num(Len(otherStacks)),
                         SumSeq([k \in 1 .. Len(otherStacks) |-> Div(One, otherStacks[k])]))
             IN Div(harmonicMean, Add(harmonicMean, stacks_[i]))])

\* calculateEliminationProbabilities with the harmonic mean taken over all
\* stacks, the player's own included (the filter forgotten)
calculateEliminationProbabilitiesNoFilter(stacks_) ==
    LET probs == Array([i \in 1 .. Len(stacks_) |->
                    LET harmonicMean ==
                            Div(Num(Len(stacks_)),
                                SumSeq([k \in 1 .. Len(stacks_) |-> Div(One, stacks_[k])]))
                    IN Div(harmonicMean, Add(harmonicMean, stacks_[i]))])
        sum == SumSeq(probs)
    IN Array([i \in 1 .. Len(stacks_) |-> Div(probs[i], sum)])

\* calculateEliminationProbabilities with a probability that grows with the
\* player's own stack
calculateEliminationProbabilitiesDirect(stacks_) ==
    LET probs == Array([i \in 1 .. Len(stacks_) |->
                    LET otherStacks == RemoveAt(stacks_, i - 1)
                        harmonicMean ==
                            Div(Num(Len(otherStacks)),
                                SumSeq([k \in 1 .. Len(otherStacks) |-> Div(One, otherStacks[k])]))
                    IN Div(stacks_[i], Add(harmonicMean, stacks_[i]))])
        sum == SumSeq(probs)
    IN Array([i \in 1 .. Len(stacks_) |-> Div(probs[i], sum)])

calculateEliminationProbabilities(stacks_) ==
    LET probs == Array([i \in 1 .. Len(stacks_) |->
                    LET otherStacks == RemoveAt(stacks_, i - 1)
                        harmonicMean ==
                            Div(Num(Len(otherStacks)),
                                SumSeq([k \in 1 .. Len(otherStacks) |-> Div(One, otherStacks[k])]))
                    IN Div(harmonicMean, Add(harmonicMean, stacks_[i]))])
        sum == SumSeq(probs)
    IN Array([i \in 1 .. Len(stacks_) |-> Div(probs[i], sum)])

\* newPlayerIndex without the shift
newPlayerIndexUnshifted(playerIndex_, i) == playerIndex_

\* the index of the tracked player once player i has been removed
newPlayerIndex(playerIndex_, i) == IF playerIndex_ > i THEN playerIndex_ - 1 ELSE playerIndex_

\* headsUpEquity with `playerChips = stacks[0]` whoever the player is
headsUpEquityFirstSeat(stacks_, payouts_, playerIndex_) ==
    LET totalChips == Add(At(stacks_, 0), At(stacks_, 1))
        playerChips == At(stacks_, 0)
        winProb == Div(playerChips, totalChips)
    IN Add(Mul(winProb, At(payouts_, 0)), Mul(Sub(One, winProb), OrZero(At(payouts_, 1))))

\* headsUpEquity paying the winner only
headsUpEquityWinnerOnly(stacks_, payouts_, playerIndex_) ==
    LET totalChips == Add(At(stacks_, 0), At(stacks_, 1))
        playerChips == At(stacks_, playerIndex_)
        winProb == Div(playerChips, totalChips)
    IN Mul(winProb, At(payouts_, 0))

\* the n = 2 case of calculateInMoneyEquity
headsUpEquity(stacks_, payouts_, playerIndex_) ==
    LET totalChips == Add(At(stacks_, 0), At(stacks_, 1))
        playerChips == At(stacks_, playerIndex_)
        winProb == Div(playerChips, totalChips)
    IN Add(Mul(winProb, At(payouts_, 0)), Mul(Sub(One, winProb), OrZero(At(payouts_, 1))))

RECURSIVE calculateInMoneyEquity(_, _, _)
calculateInMoneyEquity(stacks_, payouts_, playerIndex_) ==
    LET n == Len(stacks_)
    IN IF n = 1 THEN At(payouts_, 0)
       ELSE IF n = 2 THEN headsUpEquity(stacks_, payouts_, playerIndex_)
       ELSE LET eliminationProbs == calculateEliminationProbabilities(stacks_)
                term(i) ==
                    IF i = playerIndex_
                    THEN Mul(eliminationProbs[i + 1], OrZero(At(payouts_, n - 1)))
                    ELSE LET newStacks == RemoveAt(stacks_, i)
                             newPayouts == Slice(payouts_, Len(newStacks))
                         IN Mul(eliminationProbs[i + 1],
                                calculateInMoneyEquity(newStacks, newPayouts,
                                                       newPlayerIndex(playerIndex_, i)))
            IN SumSeq([k \in 1 .. n |-> term(k - 1)])

\* singlePlayerEquity returning the last payout
singlePlayerEquityLast(payouts_) == OrZero(At(payouts_, Len(payouts_) - 1))

\* the n = 1 case of calculatePlayerEquity
singlePlayerEquity(payouts_) == OrZero(At(payouts_, 0))

RECURSIVE calculatePlayerEquity(_, _, _)
calculatePlayerEquity(stacks_, payouts_, playerIndex_) ==
    LET n == Len(stacks_)
    IN IF n = 1 THEN singlePlayerEquity(payouts_)
       ELSE IF n <= Len(payouts_)
       THEN calculateInMoneyEquity(stacks_, payouts_, playerIndex_)
       ELSE LET eliminationProbs == calculateEliminationProbabilities(stacks_)
                \* a skipped iteration leaves equity as it is, as adding 0 does
                term(i) ==
                    IF i = playerIndex_ THEN Zero
                    ELSE LET newStacks == RemoveAt(stacks_, i)
                             newPayouts ==
                                 Slice(payouts_, Min(Len(payouts_), Len(newStacks)))
                         IN IF Len(newPayouts) > 0
                            THEN Mul(eliminationProbs[i + 1],
                                     calculatePlayerEquity(newStacks, newPayouts,
                                                           newPlayerIndex(playerIndex_, i)))
                            ELSE Zero
            IN SumSeq([k \in 1 .. n |-> term(k - 1)])

InvalidInput == "Invalid input: empty stacks or payouts"

\* calculateICM with a guard that tests the payouts only
calculateICMPayoutsOnly(stacks_, payouts_, playerIndex_) ==
    LET totalChips == SumSeq(stacks_)
        playerStack == At(stacks_, playerIndex_)
    IN IF Len(payouts_) = 0
       THEN [thrown |-> InvalidInput]
       ELSE LET equity == calculatePlayerEquity(stacks_, payouts_, playerIndex_)
                chipEV == Mul(Div(playerStack, totalChips), SumSeq(payouts_))
                dollarEV == equity
                riskPremium == Sub(chipEV, dollarEV)
            IN [thrown |-> "", equity |-> equity, chipEV |-> chipEV,
                dollarEV |-> dollarEV, riskPremium |-> riskPremium]

\* calculateICM with `riskPremium = dollarEV - chipEV`
calculateICMSwapped(stacks_, payouts_, playerIndex_) ==
    LET totalChips == SumSeq(stacks_)
        playerStack == At(stacks_, playerIndex_)
    IN IF Len(payouts_) = 0 \/ Len(stacks_) = 0
       THEN [thrown |-> InvalidInput]
       ELSE LET equity == calculatePlayerEquity(stacks_, payouts_, playerIndex_)
                chipEV == Mul(Div(playerStack, totalChips), SumSeq(payouts_))
                dollarEV == equity
                riskPremium == Sub(dollarEV, chipEV)
            IN [thrown |-> "", equity |-> equity, chipEV |-> chipEV,
                dollarEV |-> dollarEV, riskPremium |-> riskPremium]

\* the record calculateICM returns, or the message of the Error it throws
calculateICM(stacks_, payouts_, playerIndex_) ==
    LET totalChips == SumSeq(stacks_)
        playerStack == At(stacks_, playerIndex_)
    IN IF Len(payouts_) = 0 \/ Len(stacks_) = 0
       THEN [thrown |-> InvalidInput]
       ELSE LET equity == calculatePlayerEquity(stacks_, payouts_, playerIndex_)
                chipEV == Mul(Div(playerStack, totalChips), SumSeq(payouts_))
                dollarEV == equity
                riskPremium == Sub(chipEV, dollarEV)
            IN [thrown |-> "", equity |-> equity, chipEV |-> chipEV,
                dollarEV |-> dollarEV, riskPremium |-> riskPremium]

\* calculateBubbleFactor returning `icmEquity / chipEquity`
calculateBubbleFactorInverted(stacks_, payouts_, playerIndex_) ==
    LET totalChips == SumSeq(stacks_)
        playerStack == At(stacks_, playerIndex_)
        chipEquity == Mul(Div(playerStack, totalChips), SumSeq(payouts_))
        icmEquity == calculatePlayerEquity(stacks_, payouts_, playerIndex_)
    IN IF Less(Zero, icmEquity) THEN Div(icmEquity, chipEquity) ELSE One

calculateBubbleFactor(stacks_, payouts_, playerIndex_) ==
    LET totalChips == SumSeq(stacks_)
        playerStack == At(stacks_, playerIndex_)
        chipEquity == Mul(Div(playerStack, totalChips), SumSeq(payouts_))
        icmEquity == calculatePlayerEquity(stacks_, payouts_, playerIndex_)
    IN IF Less(Zero, icmEquity) THEN Div(chipEquity, icmEquity) ELSE One

\* x <= y: false as soon as either side is NaN
LessEq(x, y) == ~IsNaN(x) /\ ~IsNaN(y) /\ (x = y \/ Less(x, y))

\* Math.min(x, y)
MathMin(x, y) == IF IsNaN(x) \/ IsNaN(y) THEN NaN ELSE IF Less(y, x) THEN y ELSE x

\* the literal 0.5
Half == <<1, 2>>

\* calculatePushFoldEquity with the cost of the posted blinds as foldEV
calculatePushFoldEquityFoldCost(heroStack, villainStack, blinds, antes, callingRange, foldEquity) ==
    LET pot == Add(blinds, antes)
        foldEV == Neg(pot)
        callEquity == Half
        effectiveStack == MathMin(heroStack, villainStack)
        pushEV ==
            Add(Mul(foldEquity, pot),
                Mul(Sub(One, foldEquity),
                    Sub(Mul(callEquity, Add(pot, effectiveStack)),
                        Mul(Sub(One, callEquity), effectiveStack))))
    IN [pushEV |-> pushEV, foldEV |-> foldEV]

\* calculatePushFoldEquity with `callEquity = callingRange`
calculatePushFoldEquityCallingRange(heroStack, villainStack, blinds, antes, callingRange, foldEquity) ==
    LET pot == Add(blinds, antes)
        foldEV == Zero
        callEquity == callingRange
        effectiveStack == MathMin(heroStack, villainStack)
        pushEV ==
            Add(Mul(foldEquity, pot),
                Mul(Sub(One, foldEquity),
                    Sub(Mul(callEquity, Add(pot, effectiveStack)),
                        Mul(Sub(One, callEquity), effectiveStack))))
    IN [pushEV |-> pushEV, foldEV |-> foldEV]

calculatePushFoldEquity(heroStack, villainStack, blinds, antes, callingRange, foldEquity) ==
    LET pot == Add(blinds, antes)
        foldEV == Zero
        callEquity == Half
        effectiveStack == MathMin(heroStack, villainStack)
        pushEV ==
            Add(Mul(foldEquity, pot),
                Mul(Sub(One, foldEquity),
                    Sub(Mul(callEquity, Add(pot, effectiveStack)),
                        Mul(Sub(One, callEquity), effectiveStack))))
    IN [pushEV |-> pushEV, foldEV |-> foldEV]

getTightPushRange ==
    << "AA", "KK", "QQ", "JJ", "TT", "99", "88", "77",
       "AKs", "AKo", "AQs", "AQo", "AJs", "AJo", "ATs", "ATo",
       "A9s", "A8s", "A7s", "A6s", "A5s", "A4s", "A3s", "A2s",
       "KQs", "KQo", "KJs", "KJo", "KTs", "K9s",
       "QJs", "QJo", "QTs", "Q9s",
       "JTs", "J9s",
       "T9s" >>

\* getMediumPushRange without `...this.getTightPushRange()`
getMediumPushRangeOwn ==
    << "66", "55", "44", "33", "22",
       "A9o", "A8o", "A7o", "A6o", "A5o",
       "KTo", "K9o", "K8s", "K7s", "K6s", "K5s",
       "Q9o", "Q8s", "Q7s",
       "J9o", "J8s", "J7s",
       "T9o", "T8s", "98s" >>

getMediumPushRange ==
    getTightPushRange \o
    << "66", "55", "44", "33", "22",
       "A9o", "A8o", "A7o", "A6o", "A5o",
       "KTo", "K9o", "K8s", "K7s", "K6s", "K5s",
       "Q9o", "Q8s", "Q7s",
       "J9o", "J8s", "J7s",
       "T9o", "T8s", "98s" >>

getWidePushRange ==
    getMediumPushRange \o
    << "A4o", "A3o", "A2o",
       "K8o", "K7o", "K6o", "K5o", "K4s", "K3s", "K2s",
       "Q8o", "Q7o", "Q6s", "Q5s", "Q4s",
       "J8o", "J7o", "J6s", "J5s",
       "T8o", "T7s", "T6s",
       "98o", "97s", "96s",
       "87s", "86s",
       "76s", "75s",
       "65s" >>

getVeryWidePushRange ==
    getWidePushRange \o
    << "K4o", "K3o", "K2o",
       "Q6o", "Q5o", "Q4o", "Q3s", "Q2s",
       "J6o", "J5o", "J4s", "J3s", "J2s",
       "T7o", "T6o", "T5s", "T4s", "T3s", "T2s",
       "97o", "96o", "95s", "94s",
       "87o", "86o", "85s", "84s",
       "76o", "75o", "74s",
       "65o", "64s", "63s",
       "54s", "53s",
       "43s", "42s",
       "32s" >>

\* calculateOptimalPushingRange with `<` where the code has `<=`
calculateOptimalPushingRangeStrict(heroStack, villainStacks, blinds, antes, position, payouts_) ==
    LET stackInBB == Div(heroStack, blinds)
    IN IF Less(stackInBB, Num(8)) THEN getTightPushRange
       ELSE IF Less(stackInBB, Num(12)) THEN getMediumPushRange
       ELSE IF Less(stackInBB, Num(18)) THEN getWidePushRange
       ELSE getVeryWidePushRange

calculateOptimalPushingRange(heroStack, villainStacks, blinds, antes, position, payouts_) ==
    LET stackInBB == Div(heroStack, blinds)
    IN IF LessEq(stackInBB, Num(8)) THEN getTightPushRange
       ELSE IF LessEq(stackInBB, Num(12)) THEN getMediumPushRange
       ELSE IF LessEq(stackInBB, Num(18)) THEN getWidePushRange
       ELSE getVeryWidePushRange

\* the elimination probabilities the outermost call of calculatePlayerEquity
\* computes (its local eliminationProbs), or <<>> when it computes none
topEliminationProbs(stacks_, payouts_) ==
    IF Len(stacks_) # 1 /\ (Len(stacks_) > Len(payouts_) \/ Len(stacks_) > 2)
    THEN calculateEliminationProbabilities(stacks_)
    ELSE <<>>

(***************************************************************************)
(* The calls a client makes on one pair of stacks and payouts, fixed by    *)
(* Init: calculatePlayerEquity for player 0, 1, ... in turn, as the loops  *)
(* of the engine's callers do, or one call of calculateICM.                *)
(***************************************************************************)
VARIABLES stacks, payouts, playerIndex, op, result, equities, eliminationProbs, frames,
          args, cache, requests

vars == <<stacks, payouts, playerIndex, op, result, equities, eliminationProbs, frames,
          args, cache, requests>>

\* what the calls of calculatePlayerEquity, calculateICM and
\* calculateBubbleFactor leave alone: the arguments of the push/fold
\* functions and of evaluateHand, the cache of the HTTP routes and the
\* requests they are serving
rest == <<args, cache, requests>>

NoArgs == [heroStack |-> 0]

\* the empty cache: no key has a value
NoCache == <<>>

\* no request is being served
NoRequests == <<>>

\* all arrays of elements of S whose length is in N
Arrays(S, N) == UNION {[1 .. k -> S] : k \in N}

\* the stacks and payouts of the scenarios of the engine's tests
Scenarios ==
    { <<(<<3000, 1000>>), (<<600, 400>>)>>,
      <<(<<1000, 0, 500>>), (<<1000, 600>>)>>,
      <<(<<2000, 2000, 1000>>), (<<6000, 4000>>)>>,
      <<(<<4000, 500, 500>>), (<<6000, 4000>>)>>,
      <<(<<2000, 1000, 1000>>), (<<5000, 3000>>)>> }

Inputs == (Arrays(StackValues, PlayerCounts) \X Arrays(PayoutValues, 0 .. MaxPayouts)) \cup Scenarios

NoResult == [thrown |-> "none"]

Init ==
    /\ \E in \in Inputs : stacks = in[1] /\ payouts = in[2]
    /\ playerIndex = 0
    /\ op = "idle"
    /\ result = NoResult
    /\ equities = <<>>
    /\ eliminationProbs = <<>>
    /\ frames = <<>>
    /\ args = NoArgs
    /\ cache = NoCache
    /\ requests = NoRequests

\* one more turn of `for (let i = 0; i < stacks.length; i++)
\*   { const equity = ICMCalculator.calculatePlayerEquity(stacks, payouts, i); ... }`
CalculatePlayerEquity ==
    /\ op \in {"idle", "calculatePlayerEquity"}
    /\ Len(equities) < Len(stacks)
    /\ LET i == Len(equities)
           equity == calculatePlayerEquity(Nums(stacks), Nums(payouts), i)
       IN /\ playerIndex' = i
          /\ result' = [thrown |-> "", equity |-> equity]
          /\ equities' = Append(equities, equity)
    /\ op' = "calculatePlayerEquity"
    /\ eliminationProbs' =
           IF eliminationProbs = <<>>
           THEN topEliminationProbs(Nums(stacks), Nums(payouts))
           ELSE eliminationProbs
    /\ UNCHANGED <<stacks, payouts, frames>>
    /\ UNCHANGED rest

\* calculateICM(stacks, payouts, i); i may lie past the last player
CalculateICM(i) ==
    /\ op = "idle"
    /\ op' = "calculateICM"
    /\ playerIndex' = i
    /\ result' = calculateICM(Nums(stacks), Nums(payouts), i)
    /\ UNCHANGED <<stacks, payouts, equities, eliminationProbs, frames>>
    /\ UNCHANGED rest

\* calculateBubbleFactor(stacks, payouts, i); i may lie past the last player
CalculateBubbleFactor(i) ==
    /\ op = "idle"
    /\ op' = "calculateBubbleFactor"
    /\ playerIndex' = i
    /\ result' = [thrown |-> "",
                  bubbleFactor |-> calculateBubbleFactor(Nums(stacks), Nums(payouts), i)]
    /\ UNCHANGED <<stacks, payouts, equities, eliminationProbs, frames>>
    /\ UNCHANGED rest

Next ==
    \/ CalculatePlayerEquity
    \/ \E i \in PlayerCounts : CalculateICM(i)
    \/ \E i \in PlayerCounts : CalculateBubbleFactor(i)

Spec == Init /\ [][Next]_vars

(***************************************************************************)
(* The same calls on the stacks of players who all hold chips and on prize *)
(* schedules, whose payouts never rise from one place to the next.         *)
(***************************************************************************)
PrizeValues == 0 .. 3

Schedules ==
    {p \in Arrays(PrizeValues, 1 .. MaxPayouts) : \A k \in 1 .. (Len(p) - 1) : p[k] >= p[k + 1]}

\* the stacks and payouts of the tests of the chip leader's equity
ScheduleScenarios == { <<(<<3000, 1000, 1000>>), (<<5000, 3000, 2000>>)>> }

ScheduleInputs ==
    (Arrays(1 .. MaxStack, PlayerCounts \ {0}) \X Schedules) \cup ScheduleScenarios

InitSchedules ==
    /\ \E in \in ScheduleInputs : stacks = in[1] /\ payouts = in[2]
    /\ playerIndex = 0
    /\ op = "idle"
    /\ result = NoResult
    /\ equities = <<>>
    /\ eliminationProbs = <<>>
    /\ frames = <<>>
    /\ args = NoArgs
    /\ cache = NoCache
    /\ requests = NoRequests

SpecSchedules == InitSchedules /\ [][Next]_vars

(***************************************************************************)
(* One call of calculatePlayerEquity, step by step: frames is the call     *)
(* stack, one record per active call of calculatePlayerEquity or           *)
(* calculateInMoneyEquity, the innermost last.  A frame holds the call's   *)
(* arguments, the loop counter i, the local equity and eliminationProbs,   *)
(* and where the call stands: in its loop ("loop"), about to hand over to  *)
(* calculateInMoneyEquity ("delegate"), waiting for it ("delegated"), or   *)
(* about to return equity ("return").  The arrays of the outermost frame   *)
(* are the client's own arrays, stacks and payouts.                        *)
(***************************************************************************)
\* the number of times the client repeats its call
MaxCalls == 2

\* the receiver of s.splice(i, 1), which removes the element in place
receiverAfterSplice(s, i) == RemoveAt(s, i)

\* the receiver of s.filter(...) once filter has returned: filter builds a
\* new array and leaves its receiver as it is
receiverAfterFilter(s, i) == s

\* the receiver of s.slice(0, k) once slice has returned
receiverAfterSlice(s, k) == s

\* the frame of a call that returns in its n = 1 or n = 2 branch only when
\* a single stack is left
FrameNoHeadsUp(fn, stacks_, payouts_, playerIndex_) ==
    LET n == Len(stacks_)
        frame(pc, equity, probs) ==
            [fn |-> fn, stacks |-> stacks_, payouts |-> payouts_,
             playerIndex |-> playerIndex_, pc |-> pc, i |-> 0,
             equity |-> equity, eliminationProbs |-> probs]
        loop == frame("loop", Zero, calculateEliminationProbabilities(Nums(stacks_)))
    IN IF fn = "calculatePlayerEquity"
       THEN IF n = 1 THEN frame("return", singlePlayerEquity(Nums(payouts_)), <<>>)
            ELSE IF n <= Len(payouts_) THEN frame("delegate", Zero, <<>>)
            ELSE loop
       ELSE IF n = 1 THEN frame("return", At(Nums(payouts_), 0), <<>>)
            ELSE loop

\* the frame of a call on entry, once the branches that come before the
\* loop are taken
Frame(fn, stacks_, payouts_, playerIndex_) ==
    LET n == Len(stacks_)
        frame(pc, equity, probs) ==
            [fn |-> fn, stacks |-> stacks_, payouts |-> payouts_,
             playerIndex |-> playerIndex_, pc |-> pc, i |-> 0,
             equity |-> equity, eliminationProbs |-> probs]
        loop == frame("loop", Zero, calculateEliminationProbabilities(Nums(stacks_)))
    IN IF fn = "calculatePlayerEquity"
       THEN IF n = 1 THEN frame("return", singlePlayerEquity(Nums(payouts_)), <<>>)
            ELSE IF n <= Len(payouts_) THEN frame("delegate", Zero, <<>>)
            ELSE loop
       ELSE IF n = 1 THEN frame("return", At(Nums(payouts_), 0), <<>>)
            ELSE IF n = 2
            THEN frame("return",
                       headsUpEquity(Nums(stacks_), Nums(payouts_), playerIndex_), <<>>)
            ELSE loop

\* the innermost call
Top == frames[Len(frames)]

\* the arrays the loop of frame f builds when player f.i is eliminated
NewStacks(f) == RemoveAt(f.stacks, f.i)

NewPayouts(f) ==
    IF f.fn = "calculatePlayerEquity"
    THEN Slice(f.payouts, Min(Len(f.payouts), Len(NewStacks(f))))
    ELSE Slice(f.payouts, Len(NewStacks(f)))

\* the turn of the loop frame f is at makes a recursive call
Recurses(f) ==
    /\ f.pc = "loop"
    /\ f.i < Len(f.stacks)
    /\ f.i # f.playerIndex
    /\ f.fn = "calculatePlayerEquity" => Len(NewPayouts(f)) > 0

\* frames after its innermost frame is replaced by f and the frames in more
\* are pushed
Push(f, more) == SubSeq(frames, 1, Len(frames) - 1) \o <<f>> \o more

\* the client's arrays are the arrays of the outermost frame
ClientArrays ==
    /\ stacks' = IF frames' = <<>> THEN stacks ELSE frames'[1].stacks
    /\ payouts' = IF frames' = <<>> THEN payouts ELSE frames'[1].payouts

InitCalls ==
    /\ \E in \in Inputs : stacks = in[1] /\ payouts = in[2]
    /\ playerIndex \in PlayerCounts
    /\ op = "idle"
    /\ result = NoResult
    /\ equities = <<>>
    /\ eliminationProbs = <<>>
    /\ frames = <<>>
    /\ args = NoArgs
    /\ cache = NoCache
    /\ requests = NoRequests

\* the client calls calculatePlayerEquity(stacks, payouts, playerIndex)
Invoke ==
    /\ op \in {"idle", "done"}
    /\ Len(equities) < MaxCalls
    /\ op' = "running"
    /\ frames' = <<Frame("calculatePlayerEquity", stacks, payouts, playerIndex)>>
    /\ UNCHANGED <<stacks, payouts, playerIndex, result, equities, eliminationProbs>>
    /\ UNCHANGED rest

\* `return this.calculateInMoneyEquity(stacks, payouts, playerIndex)`
Delegate ==
    /\ op = "running"
    /\ Top.pc = "delegate"
    /\ frames' = Push([Top EXCEPT !.pc = "delegated"],
                      <<Frame("calculateInMoneyEquity", Top.stacks, Top.payouts,
                              Top.playerIndex)>>)
    /\ ClientArrays
    /\ UNCHANGED <<playerIndex, op, result, equities, eliminationProbs>>
    /\ UNCHANGED rest

\* a turn of the loop that calls nothing: `continue`, a turn with no payout
\* left, or the player's own elimination in calculateInMoneyEquity
Iterate ==
    /\ op = "running"
    /\ Top.pc = "loop"
    /\ Top.i < Len(Top.stacks)
    /\ ~Recurses(Top)
    /\ frames' =
           Push([Top EXCEPT
                    !.i = @ + 1,
                    !.equity =
                        IF Top.fn = "calculateInMoneyEquity" /\ Top.i = Top.playerIndex
                        THEN Add(@, Mul(Top.eliminationProbs[Top.i + 1],
                                        OrZero(At(Nums(Top.payouts), Len(Top.stacks) - 1))))
                        ELSE @,
                    !.stacks =
                        IF Top.i = Top.playerIndex THEN @ ELSE receiverAfterFilter(@, Top.i),
                    !.payouts =
                        IF Top.i = Top.playerIndex
                        THEN @ ELSE receiverAfterSlice(@, Len(NewStacks(Top)))],
                <<>>)
    /\ ClientArrays
    /\ UNCHANGED <<playerIndex, op, result, equities, eliminationProbs>>
    /\ UNCHANGED rest

\* a turn of the loop that calls the function again, on the arrays built
\* for the elimination of player i
Recurse ==
    /\ op = "running"
    /\ Recurses(Top)
    /\ frames' =
           Push([Top EXCEPT !.stacks = receiverAfterFilter(@, Top.i),
                            !.payouts = receiverAfterSlice(@, Len(NewStacks(Top)))],
                <<Frame(Top.fn, NewStacks(Top), NewPayouts(Top),
                        newPlayerIndex(Top.playerIndex, Top.i))>>)
    /\ ClientArrays
    /\ UNCHANGED <<playerIndex, op, result, equities, eliminationProbs>>
    /\ UNCHANGED rest

\* the innermost call returns its equity: to the client, to the
\* calculatePlayerEquity that handed over to it, or to the loop that called
\* it, which adds `eliminationProbs[i] * subEquity` and moves on
Return ==
    /\ op = "running"
    /\ Top.pc = "return" \/ (Top.pc = "loop" /\ Top.i = Len(Top.stacks))
    /\ IF Len(frames) = 1
       THEN /\ frames' = <<>>
            /\ op' = "done"
            /\ result' = [thrown |-> "", equity |-> Top.equity]
            /\ equities' = Append(equities, Top.equity)
       ELSE /\ LET caller == frames[Len(frames) - 1]
               IN frames' =
                      SubSeq(frames, 1, Len(frames) - 2) \o
                      << IF caller.pc = "delegated"
                         THEN [caller EXCEPT !.pc = "return", !.equity = Top.equity]
                         ELSE [caller EXCEPT
                                  !.i = @ + 1,
                                  !.equity =
                                      Add(@, Mul(caller.eliminationProbs[caller.i + 1],
                                                 Top.equity))] >>
            /\ UNCHANGED <<op, result, equities>>
    /\ ClientArrays
    /\ UNCHANGED <<playerIndex, eliminationProbs>>
    /\ UNCHANGED rest

\* the steps of a call of calculatePlayerEquity; calculateICM and
\* calculateBubbleFactor, which only read their arguments before and after
\* their own call of it, are taken whole
NextCalls ==
    \/ Invoke
    \/ Delegate
    \/ Iterate
    \/ Recurse
    \/ Return
    \/ CalculateICM(playerIndex)
    \/ CalculateBubbleFactor(playerIndex)

SpecCalls == InitCalls /\ [][NextCalls]_vars

(***************************************************************************)
(* The push/fold functions: one call of calculatePushFoldEquity or of      *)
(* calculateOptimalPushingRange on the arguments args, fixed by            *)
(* InitSolver.  Fractions (callingRange, foldEquity) are given in          *)
(* hundredths; stacks and payouts are the villainStacks and payouts of     *)
(* calculateOptimalPushingRange.                                           *)
(***************************************************************************)
\* stack sizes on both sides of each threshold for blinds of 1 and 2, and
\* the stacks of the tests
HeroStacks == {0, 8, 9, 12, 13, 17, 18, 19, 25, 37, 800, 1000}

VillainStacks == {1, 12, 1500}

BlindValues == {0, 1, 2, 100}

AnteValues == {0, 10}

\* callingRange and foldEquity, in hundredths
CallingRanges == {10, 15}

FoldEquities == {0, 85, 90, 100}

Positions == {"BTN", "SB"}

Hundredths(p) == Norm(p, 100)

InitSolver ==
    /\ args \in [heroStack : HeroStacks, villainStack : VillainStacks,
                  blinds : BlindValues, antes : AnteValues,
                  callingRange : CallingRanges, foldEquity : FoldEquities,
                  position : Positions]
    /\ stacks \in {<<>>, <<1500, 500>>}
    /\ payouts \in {<<>>, <<3>>}
    /\ playerIndex = 0
    /\ op = "idle"
    /\ result = NoResult
    /\ equities = <<>>
    /\ eliminationProbs = <<>>
    /\ frames = <<>>
    /\ cache = NoCache
    /\ requests = NoRequests

CalculatePushFoldEquity ==
    /\ op = "idle"
    /\ op' = "calculatePushFoldEquity"
    /\ result' =
           calculatePushFoldEquity(Num(args.heroStack), Num(args.villainStack),
                                   Num(args.blinds), Num(args.antes),
                                   Hundredths(args.callingRange),
                                   Hundredths(args.foldEquity))
    /\ UNCHANGED <<stacks, payouts, playerIndex, equities, eliminationProbs, frames, rest>>

CalculateOptimalPushingRange ==
    /\ op = "idle"
    /\ op' = "calculateOptimalPushingRange"
    /\ result' =
           [range |-> calculateOptimalPushingRange(Num(args.heroStack), Nums(stacks),
                                                   Num(args.blinds), Num(args.antes),
                                                   args.position, Nums(payouts))]
    /\ UNCHANGED <<stacks, payouts, playerIndex, equities, eliminationProbs, frames, rest>>

NextSolver ==
    \/ CalculatePushFoldEquity
    \/ CalculateOptimalPushingRange

SpecSolver == InitSolver /\ [][NextSolver]_vars

(***************************************************************************)
(* The HTTP routes POST /api/icm/calculate and POST /api/icm/bubble-factor *)
(* of the ICM router, each request handled whole: validateBody, the cache  *)
(* look-up, the handler and, for an error, errorHandler.  stacks, payouts  *)
(* and playerIndex are the body of the last request, result is the         *)
(* response to it (invoked tells whether the engine was called), cache     *)
(* maps the cache keys that are set to their values.                       *)
(***************************************************************************)
\* the most keys the cache holds
MaxCached == 2

\* the statusCode of createError.badRequest and createError.internal, and
\* the status of res.json
badRequest == 400

internal == 500

ok == 200

\* bodies the schema accepts and bodies it rejects, among them the request
\* of the tests: stacks [1000, 500], payouts [1000, 600], playerIndex 5
HttpStacks == {<<1>>, <<1000, 500>>}

HttpPayouts == {<<>>, <<0>>, <<1000, 600>>}

HttpIndexes == {-1, 0, 1, 5}

Bodies == [stacks : HttpStacks, payouts : HttpPayouts, playerIndex : HttpIndexes]

\* schema.validate(req.body) of icmCalculateSchema and bubbleFactorSchema
\* reports no error
Valid(body) ==
    /\ Len(body.stacks) >= 2
    /\ Len(body.stacks) <= 10
    /\ \A k \in 1 .. Len(body.stacks) : body.stacks[k] >= 1
    /\ Len(body.payouts) >= 1
    /\ \A k \in 1 .. Len(body.payouts) : body.payouts[k] >= 0
    /\ body.playerIndex >= 0

\* the place of the player among the stacks sorted from the largest down
\* (the sort is stable)
Position(stacks_, playerIndex_) ==
    1 + Cardinality({j \in 1 .. Len(stacks_) :
                        \/ stacks_[j] > stacks_[playerIndex_ + 1]
                        \/ stacks_[j] = stacks_[playerIndex_ + 1] /\ j < playerIndex_ + 1})

\* the analysis POST /api/icm/calculate builds from the result icm of
\* calculateICM for a player of the stacks
calculateAnalysis(body, icm, totalChips, totalPayout) ==
    [equity |-> icm.equity, chipEV |-> icm.chipEV, dollarEV |-> icm.dollarEV,
     riskPremium |-> icm.riskPremium,
     chipPercentage |-> Div(At(Nums(body.stacks), body.playerIndex), totalChips),
     totalPayout |-> totalPayout,
     equityPercentage |-> Mul(Div(icm.equity, totalPayout), Num(100)),
     riskPremiumPercentage |-> Mul(Div(icm.riskPremium, totalPayout), Num(100)),
     position |-> Position(body.stacks, body.playerIndex)]

CalculateAnalysis(body) ==
    calculateAnalysis(body,
                      calculateICM(Nums(body.stacks), Nums(body.payouts), body.playerIndex),
                      SumSeq(Nums(body.stacks)), SumSeq(Nums(body.payouts)))

\* the analysis POST /api/icm/bubble-factor builds (its texts left out)
bubbleFactorAnalysis(body, bubbleFactor, icmResult, totalChips, totalPayout) ==
    [bubbleFactor |-> bubbleFactor,
     icmEquity |-> icmResult.equity,
     chipEquity |->
         Mul(Div(At(Nums(body.stacks), body.playerIndex), totalChips), totalPayout),
     riskPremium |-> icmResult.riskPremium]

BubbleFactorAnalysis(body) ==
    bubbleFactorAnalysis(body,
                         calculateBubbleFactor(Nums(body.stacks), Nums(body.payouts),
                                               body.playerIndex),
                         calculateICM(Nums(body.stacks), Nums(body.payouts), body.playerIndex),
                         SumSeq(Nums(body.stacks)), SumSeq(Nums(body.payouts)))

\* the response of POST /api/icm/calculate to body; cached tells whether
\* CacheService.get returned a value
calculateRoute(body, cached) ==
    IF ~Valid(body)
    THEN [status |-> badRequest, cached |-> FALSE, invoked |-> FALSE]
    ELSE IF cached
    THEN [status |-> ok, cached |-> TRUE, invoked |-> FALSE]
    ELSE IF body.playerIndex >= Len(body.stacks)
    \* createError.badRequest is thrown inside the try block, caught, and
    \* thrown again as createError.internal
    THEN [status |-> internal, cached |-> FALSE, invoked |-> FALSE]
    ELSE [status |-> ok, cached |-> FALSE, invoked |-> TRUE]

\* the response of POST /api/icm/bubble-factor to body
bubbleFactorRoute(body, cached) ==
    IF ~Valid(body)
    THEN [status |-> badRequest, cached |-> FALSE, invoked |-> FALSE]
    ELSE IF cached
    THEN [status |-> ok, cached |-> TRUE, invoked |-> FALSE]
    ELSE [status |-> ok, cached |-> FALSE, invoked |-> TRUE]

\* the cache with key set to data
CacheSet(key, data) ==
    [k \in DOMAIN cache \cup {key} |-> IF k = key THEN data ELSE cache[k]]

\* what CacheService.get may tell: the key's value when the key is set, or
\* nothing, also when it is set (a failing Redis call is caught and gives
\* null)
CacheGet(key) == IF key \in DOMAIN cache THEN {TRUE, FALSE} ELSE {FALSE}

InitHttp ==
    /\ stacks = <<>>
    /\ payouts = <<>>
    /\ playerIndex = 0
    /\ op = "idle"
    /\ result = NoResult
    /\ equities = <<>>
    /\ eliminationProbs = <<>>
    /\ frames = <<>>
    /\ args = NoArgs
    /\ cache = NoCache
    /\ requests = NoRequests

\* a request is taken while the cache has room for its key
Room(key) == key \in DOMAIN cache \/ Cardinality(DOMAIN cache) < MaxCached

\* the end of a route: the response is sent with data when its status is
\* ok, and a computed analysis is kept by CacheService.set, whose failure
\* is caught and ignored
Respond(key, response, data) ==
    /\ result' = IF response.status # ok THEN response
                 ELSE response @@ [data |-> IF response.cached THEN cache[key] ELSE data]
    /\ \/ cache' = IF response.status = ok /\ ~response.cached
                    THEN CacheSet(key, data)
                    ELSE cache
       \/ cache' = cache

PostCalculate ==
    \E body \in Bodies :
        LET key == <<"icm", body.stacks, body.payouts, body.playerIndex>>
        IN /\ Room(key)
           /\ \E cached \in CacheGet(key) :
                  Respond(key, calculateRoute(body, cached), CalculateAnalysis(body))
           /\ stacks' = body.stacks
           /\ payouts' = body.payouts
           /\ playerIndex' = body.playerIndex
           /\ op' = "POST /api/icm/calculate"
           /\ UNCHANGED <<equities, eliminationProbs, frames, args, requests>>

PostBubbleFactor ==
    \E body \in Bodies :
        LET key == <<"bubble", body.stacks, body.payouts, body.playerIndex>>
        IN /\ Room(key)
           /\ \E cached \in CacheGet(key) :
                  Respond(key, bubbleFactorRoute(body, cached), BubbleFactorAnalysis(body))
           /\ stacks' = body.stacks
           /\ payouts' = body.payouts
           /\ playerIndex' = body.playerIndex
           /\ op' = "POST /api/icm/bubble-factor"
           /\ UNCHANGED <<equities, eliminationProbs, frames, args, requests>>

NextHttp ==
    \/ PostCalculate
    \/ PostBubbleFactor

SpecHttp == InitHttp /\ [][NextHttp]_vars

(***************************************************************************)
(* Requests to POST /api/icm/calculate served at the same time.  The       *)
(* handler is asynchronous: it gives way at `await CacheService.get` and   *)
(* at `await CacheService.set`, so the commands of several requests reach  *)
(* the cache in any order.  requests is the bag of the requests being      *)
(* served, each with its body and where it stands: its GET is on its way ("get"), or it *)
(* has missed the cache, has computed its analysis and its SETEX is on its *)
(* way ("set").  The data of the cache and of a response is what           *)
(* JSON.stringify and JSON.parse make of it.                               *)
(***************************************************************************)
MaxRequests == 2

\* the JSON value null
null == <<>>

\* JSON.parse(JSON.stringify(x)) of a number x, or of null: NaN and the
\* infinities are written as null, a finite number is read back as it was
JSONNumber(x) == IF x = null THEN null ELSE IF IsFinite(x) THEN x ELSE null

\* JSON.parse(JSON.stringify(data)) of an analysis
JSONRoundTrip(data) ==
    [f \in DOMAIN data |-> IF f = "position" THEN data[f] ELSE JSONNumber(data[f])]

\* a cache key that leaves the player out
cacheKeyNoIndex(body) == <<"icm", body.stacks, body.payouts>>

\* `icm:${JSON.stringify({ stacks, payouts, playerIndex })}`
cacheKey(body) == <<"icm", body.stacks, body.payouts, body.playerIndex>>

\* the bodies of the requests: one pair of stacks, payouts with and without
\* a prize, and every index of Bodies
CacheBodies == {body \in Bodies : body.stacks = <<1000, 500>> /\ body.payouts # <<>>}

InitCache == InitHttp

\* the requests being served without the request r
Others(r) == requests (-) SetToBag({r})

\* the response to body is sent
Send(body, response) ==
    /\ result' = response
    /\ stacks' = body.stacks
    /\ payouts' = body.payouts
    /\ playerIndex' = body.playerIndex
    /\ op' = "POST /api/icm/calculate"

\* a request arrives: validateBody answers 400, or the handler starts and
\* asks the cache for the key
Receive ==
    /\ BagCardinality(requests) < MaxRequests
    /\ \E body \in CacheBodies :
           IF Valid(body)
           THEN /\ requests' = requests (+) SetToBag({[body |-> body, pc |-> "get"]})
                /\ UNCHANGED <<stacks, payouts, playerIndex, op, result>>
           ELSE /\ Send(body, calculateRoute(body, FALSE))
                /\ UNCHANGED requests
    /\ UNCHANGED <<equities, eliminationProbs, frames, args, cache>>

\* the GET of a request is answered: on a hit the cached data is sent; on a
\* miss the handler answers 500 to an index out of range, or computes the
\* analysis and asks the cache to keep it
Get ==
    \E r \in BagToSet(requests) :
        /\ r.pc = "get"
        /\ \E cached \in CacheGet(cacheKey(r.body)) :
               LET response == calculateRoute(r.body, cached)
               IN IF cached
                  THEN /\ Send(r.body, response @@
                                       [data |-> JSONRoundTrip(cache[cacheKey(r.body)])])
                       /\ requests' = Others(r)
                  ELSE IF response.status # ok
                  THEN /\ Send(r.body, response)
                       /\ requests' = Others(r)
                  ELSE /\ requests' =
                              Others(r) (+)
                              SetToBag({[body |-> r.body, pc |-> "set",
                                         analysis |-> CalculateAnalysis(r.body)]})
                       /\ UNCHANGED <<stacks, payouts, playerIndex, op, result>>
        /\ UNCHANGED <<equities, eliminationProbs, frames, args, cache>>

\* the SETEX of a request is carried out, or fails and is ignored, and the
\* computed analysis is sent
Set ==
    \E r \in BagToSet(requests) :
        /\ r.pc = "set"
        /\ \/ /\ Room(cacheKey(r.body))
              /\ cache' = CacheSet(cacheKey(r.body), JSONRoundTrip(r.analysis))
           \/ cache' = cache
        /\ Send(r.body, calculateRoute(r.body, FALSE) @@
                            [data |-> JSONRoundTrip(r.analysis)])
        /\ requests' = Others(r)
        /\ UNCHANGED <<equities, eliminationProbs, frames, args>>

\* the 1800 seconds of a key are over
Expire ==
    /\ \E key \in DOMAIN cache : cache' = [k \in DOMAIN cache \ {key} |-> cache[k]]
    /\ UNCHANGED <<stacks, payouts, playerIndex, op, result, equities, eliminationProbs,
                   frames, args, requests>>

NextCache ==
    \/ Receive
    \/ Get
    \/ Set
    \/ Expire

SpecCache == InitCache /\ [][NextCache]_vars

(***************************************************************************)
(* The hand evaluator (class HandEvaluator).  A card is a record of a rank *)
(* and a suit; the cards of a call are distinct, and evaluateHand looks at *)
(* them in no particular order, so they are kept as a set.  The            *)
(* description of an evaluation is left out.                               *)
(***************************************************************************)
RANKS == <<"2", "3", "4", "5", "6", "7", "8", "9", "T", "J", "Q", "K", "A">>

\* RANKS.indexOf(rank)
indexOf(rank) == (CHOOSE k \in 1 .. Len(RANKS) : RANKS[k] = rank) - 1

\* the numbers of s, the largest first
RECURSIVE Descending(_)
Descending(s) ==
    IF s = {} THEN <<>>
    ELSE LET top == CHOOSE x \in s : \A y \in s : y <= x
         IN <<top>> \o Descending(s \ {top})

\* Object.values(getRankCounts(cards)).sort((a, b) => b - a): how many cards
\* each rank among the cards has, the largest number first
rankCountsSorted(cards) ==
    LET ranks == {c.rank : c \in cards}
        count(r) == Cardinality({c \in cards : c.rank = r})
        \* the ranks that have k cards, for k from 4 down to 1
        having(k) == {r \in ranks : count(r) = k}
        RECURSIVE from(_)
        from(k) ==
            IF k = 0 THEN <<>>
            ELSE [j \in 1 .. Cardinality(having(k)) |-> k] \o from(k - 1)
    IN from(Cardinality(cards))

\* Object.values(suitCounts).some(count => count >= 5)
isFlush(cards) ==
    \E suit \in {c.suit : c \in cards} : Cardinality({c \in cards : c.suit = suit}) >= 5

checkStraight(cards) ==
    LET uniqueRanks == Descending({indexOf(c.rank) : c \in cards})
        \* the places i from which five ranks follow one another
        starts == {i \in 1 .. (Len(uniqueRanks) - 4) :
                       \A j \in 1 .. 4 : uniqueRanks[i + j] = uniqueRanks[i + j - 1] - 1}
        includes(r) == \E k \in 1 .. Len(uniqueRanks) : uniqueRanks[k] = r
    IN IF starts # {}
       THEN [isStraight |-> TRUE,
             highCard |-> uniqueRanks[CHOOSE i \in starts : \A k \in starts : i <= k] + 2]
       ELSE IF includes(12) /\ includes(0) /\ includes(1) /\ includes(2) /\ includes(3)
       THEN [isStraight |-> TRUE, highCard |-> 5]
       ELSE [isStraight |-> FALSE, highCard |-> 0]

evaluateHand(cards) ==
    IF Cardinality(cards) < 5 \/ Cardinality(cards) > 7
    THEN [thrown |-> "Hand must contain 5-7 cards"]
    ELSE LET straightResult == checkStraight(cards)
             isStraight == straightResult.isStraight
             counts == rankCountsSorted(cards)
             evaluation(rank, category) ==
                 [thrown |-> "", rank |-> rank, category |-> category]
         IN IF isFlush(cards) /\ isStraight
            THEN IF straightResult.highCard = 14
                 THEN evaluation(10, "ROYAL_FLUSH")
                 ELSE evaluation(9, "STRAIGHT_FLUSH")
            ELSE IF counts[1] = 4 THEN evaluation(8, "FOUR_OF_A_KIND")
            ELSE IF counts[1] = 3 /\ counts[2] = 2 THEN evaluation(7, "FULL_HOUSE")
            ELSE IF isFlush(cards) THEN evaluation(6, "FLUSH")
            ELSE IF isStraight THEN evaluation(5, "STRAIGHT")
            ELSE IF counts[1] = 3 THEN evaluation(4, "THREE_OF_A_KIND")
            ELSE IF counts[1] = 2 /\ counts[2] = 2 THEN evaluation(3, "TWO_PAIR")
            ELSE IF counts[1] = 2 THEN evaluation(2, "PAIR")
            ELSE evaluation(1, "HIGH_CARD")

\* getCombinations(cards, 5), each combination as a set
getCombinations(cards, size) == {combo \in SUBSET cards : Cardinality(combo) = size}

\* the evaluation of the hand getBestHand picks: the first of the
\* five-card combinations that no other one outranks
getBestHand(cards) ==
    LET evaluations == {evaluateHand(combo) : combo \in getCombinations(cards, 5)}
    IN CHOOSE best \in evaluations : \A e \in evaluations : e.rank <= best.rank

Card(rank, suit) == [rank |-> rank, suit |-> suit]

\* the cards dealt from: the hearts from the nine up, the court cards that
\* make pairs, trips and four aces with them, and the low cards of the wheel
Deck ==
    {Card(r, "h") : r \in {"9", "T", "J", "Q", "K", "A"}}
        \cup {Card(r, "s") : r \in {"T", "K", "A"}}
        \cup {Card(r, "c") : r \in {"K", "A"}}
        \cup {Card("A", "d"), Card("2", "s"), Card("3", "c"), Card("4", "d"),
              Card("5", "h")}

\* the numbers of cards of a call
HandSizes == 4 .. 8

InitHands ==
    /\ \E cards \in SUBSET Deck :
           /\ Cardinality(cards) \in HandSizes
           /\ args = [cards |-> cards]
    /\ stacks = <<>>
    /\ payouts = <<>>
    /\ playerIndex = 0
    /\ op = "idle"
    /\ result = NoResult
    /\ equities = <<>>
    /\ eliminationProbs = <<>>
    /\ frames = <<>>
    /\ cache = NoCache
    /\ requests = NoRequests

EvaluateHand ==
    /\ op = "idle"
    /\ op' = "evaluateHand"
    /\ result' = evaluateHand(args.cards)
    /\ UNCHANGED <<stacks, payouts, playerIndex, equities, eliminationProbs, frames, rest>>

NextHands == EvaluateHand

SpecHands == InitHands /\ [][NextHands]_vars

(***************************************************************************)
(* Properties.                                                             *)
(***************************************************************************)
RECURSIVE SumInts(_)
SumInts(s) == IF s = <<>> THEN 0 ELSE SumInts(SubSeq(s, 1, Len(s) - 1)) + s[Len(s)]

ZeroCount(s) == Cardinality({k \in 1 .. Len(s) : s[k] = 0})

Positive(s) == \A k \in 1 .. Len(s) : s[k] > 0

NonIncreasing(s) == \A k \in 1 .. (Len(s) - 1) : s[k] >= s[k + 1]

\* the payouts awarded among Len(stacks) players
PaidPayouts == SubSeq(payouts, 1, Min(Len(stacks), Len(payouts)))

\* calculatePlayerEquity has returned for player playerIndex
Called == op = "calculatePlayerEquity"

\* calculatePlayerEquity has returned for every player
AllCalled == Called /\ Len(equities) = Len(stacks)

\* calculateICM has returned a record for a player of the stacks
Returned == op = "calculateICM" /\ result.thrown = "" /\ playerIndex < Len(stacks)

\* the chips added to a stack: one chip, or one 500-chip where the stacks are
\* those of a test scenario, which are counted in such chips
RaiseBy == IF \E k \in 1 .. Len(stacks) : stacks[k] >= 500 THEN 500 ELSE 1

\* the equity of player playerIndex once that player's stack is raised
RaisedEquity ==
    calculatePlayerEquity(Nums([stacks EXCEPT ![playerIndex + 1] = @ + RaiseBy]),
                          Nums(payouts), playerIndex)

TwoPlayerClosedForm ==
    (Called /\ Len(stacks) = 2 /\ Len(payouts) >= 2 /\ stacks[1] + stacks[2] > 0)
        => /\ result.equity =
                  Norm(stacks[playerIndex + 1] * payouts[1] + stacks[2 - playerIndex] * payouts[2],
                       stacks[1] + stacks[2])
           /\ (stacks = <<3000, 1000>> /\ payouts = <<600, 400>> /\ playerIndex = 0)
                  => result.equity = Num(550)

TwoPlayerClosedFormWitness ==
    /\ Called
    /\ stacks = <<3000, 1000>>
    /\ payouts = <<600, 400>>
    /\ playerIndex = 0
    /\ result.equity = Num(550)

\* C3: for a single stack the equity is payouts[0] whatever the stack and the
\* further payouts, and 0 when there are no payouts.
SinglePlayer ==
    (Called /\ Len(stacks) = 1)
        => result.equity = (IF payouts = <<>> THEN Zero ELSE Num(payouts[1]))

SinglePlayerWitness ==
    /\ Called
    /\ Len(stacks) = 1
    /\ Len(payouts) >= 2
    /\ payouts[1] > 0
    /\ payouts[Len(payouts)] = 0
    /\ result.equity = Num(payouts[1])

\* C4, as stated: adding chips to a player's stack never decreases that
\* player's equity, whatever the stacks and payouts.
MonotonicityAnyPayouts == Called => ~Less(RaisedEquity, result.equity)

\* C4, amended: when no payout exceeds the payout of a better place, adding
\* chips to a player's stack never decreases that player's equity.
Monotonicity == (Called /\ NonIncreasing(payouts)) => ~Less(RaisedEquity, result.equity)

MonotonicityWitness ==
    /\ Called
    /\ NonIncreasing(payouts)
    /\ Len(stacks) = 3
    /\ Positive(stacks)
    /\ Less(result.equity, RaisedEquity)

\* C5, as stated: when all n stacks are equal and positive every player's
\* equity is sum(payouts) / n.
EqualStacksAllPayouts ==
    (AllCalled /\ Positive(stacks) /\ \A k \in 1 .. Len(stacks) : stacks[k] = stacks[1])
        => \A k \in 1 .. Len(stacks) : equities[k] = Norm(SumInts(payouts), Len(stacks))

\* C5, amended: when all n stacks are equal and positive every player's
\* equity is the sum of the first min(n, L) payouts, divided by n.
EqualStacks ==
    (AllCalled /\ Positive(stacks) /\ \A k \in 1 .. Len(stacks) : stacks[k] = stacks[1])
        => \A k \in 1 .. Len(stacks) : equities[k] = Norm(SumInts(PaidPayouts), Len(stacks))

EqualStacksWitness ==
    /\ AllCalled
    /\ Len(stacks) = 2
    /\ stacks[1] = stacks[2]
    /\ stacks[1] > 0
    /\ Len(payouts) = 3
    /\ payouts[3] > 0
    /\ payouts[1] # payouts[2]
    /\ equities[1] = equities[2]

\* C6, as stated: the elimination probabilities the engine computes for
\* non-negative stacks are non-negative and sum to 1.
EliminationProbabilitiesSumToOne ==
    eliminationProbs # <<>>
        => /\ \A k \in 1 .. Len(eliminationProbs) :
                  IsFinite(eliminationProbs[k]) /\ eliminationProbs[k][1] >= 0
           /\ SumSeq(eliminationProbs) = One

\* C7, as stated: with one or more zero stacks and non-empty payouts, the
\* equity calculatePlayerEquity and calculateICM return for a player is
\* finite: neither NaN nor an Infinity.
DegenerateStacksFinite ==
    ((Called \/ Returned) /\ ZeroCount(stacks) >= 1 /\ payouts # <<>>)
        => IsFinite(result.equity)

\* C8: for stacks [1000, 0, 500] and payouts [1000, 600], calculateICM and
\* calculatePlayerEquity throw nothing and return no NaN, for each player.
ZeroStackScenario ==
    (stacks = <<1000, 0, 500>> /\ payouts = <<1000, 600>> /\ playerIndex < 3)
        => /\ Called => ~IsNaN(result.equity)
           /\ op = "calculateICM"
                 => /\ result.thrown = ""
                    /\ ~IsNaN(result.equity)
                    /\ ~IsNaN(result.chipEV)
                    /\ ~IsNaN(result.dollarEV)
                    /\ ~IsNaN(result.riskPremium)

ZeroStackScenarioWitness ==
    /\ stacks = <<1000, 0, 500>>
    /\ payouts = <<1000, 600>>
    /\ op = "calculateICM"
    /\ playerIndex = 1
    /\ result.thrown = ""
    /\ result.equity = Zero

\* C9: calculateICM throws 'Invalid input: empty stacks or payouts' and
\* returns nothing whenever the stacks or the payouts are empty, whatever
\* the player index.
InvalidInputThrown ==
    (op = "calculateICM" /\ (stacks = <<>> \/ payouts = <<>>))
        => result = [thrown |-> "Invalid input: empty stacks or payouts"]

InvalidInputThrownWitness ==
    /\ op = "calculateICM"
    /\ stacks = <<>>
    /\ payouts # <<>>
    /\ playerIndex > 0
    /\ result.thrown = "Invalid input: empty stacks or payouts"

BubbleFactorReturned == op = "calculateBubbleFactor" /\ playerIndex < Len(stacks)

\* C11, as stated: for stacks [4000, 500, 500] and payouts [6000, 4000] the
\* bubble factor of player 0, the chip leader, is strictly less than 1.
ChipLeaderBubbleFactor ==
    (BubbleFactorReturned /\ stacks = <<4000, 500, 500>> /\ payouts = <<6000, 4000>>
         /\ playerIndex = 0)
        => Less(result.bubbleFactor, One)

\* C12, as stated, on its two scenarios: the bubble factor of player 2, the
\* shortest stack on the bubble, is strictly greater than 1 for stacks
\* [2000, 2000, 1000] with payouts [6000, 4000] and for stacks
\* [2000, 1000, 1000] with payouts [5000, 3000].
ShortStackBubbleFactor ==
    (BubbleFactorReturned /\ playerIndex = 2
         /\ \/ stacks = <<2000, 2000, 1000>> /\ payouts = <<6000, 4000>>
            \/ stacks = <<2000, 1000, 1000>> /\ payouts = <<5000, 3000>>)
        => Less(One, result.bubbleFactor)

StepwiseAgrees ==
    op = "done"
        => result.equity = calculatePlayerEquity(Nums(stacks), Nums(payouts), playerIndex)

\* every active call but the outermost was made on one stack fewer than its
\* caller holds, or on its caller's stacks where calculatePlayerEquity
\* handed over to calculateInMoneyEquity, and for n >= 1 stacks no more
\* calls are active than there are players
RecursionBounded ==
    /\ \A k \in 1 .. (Len(frames) - 1) :
           Len(frames[k + 1].stacks) =
               Len(frames[k].stacks) - (IF frames[k].pc = "delegated" THEN 0 ELSE 1)
    /\ stacks # <<>> => Len(frames) <= Len(stacks)

\* a bound on the steps a call of calculateInMoneyEquity on n stacks takes,
\* its return included: n turns of the loop, each one step and at most one
\* call on n - 1 stacks
RECURSIVE InMoneyWork(_)
InMoneyWork(n) == IF n <= 0 THEN 1 ELSE n * (1 + InMoneyWork(n - 1)) + 1

\* the same for calculatePlayerEquity, which may also hand over to
\* calculateInMoneyEquity on its n stacks
RECURSIVE PlayerWork(_)
PlayerWork(n) ==
    IF n <= 0 THEN 2 + InMoneyWork(0)
    ELSE 2 + InMoneyWork(n) + n * (1 + PlayerWork(n - 1))

\* a bound on the steps frame f still takes by itself, the steps of the
\* calls it has yet to make included; waiting tells that f is not the
\* innermost frame
Remaining(f, waiting) ==
    LET n == Len(f.stacks)
        turn == 1 + (IF f.fn = "calculatePlayerEquity"
                     THEN PlayerWork(n - 1) ELSE InMoneyWork(n - 1))
    IN IF f.pc = "loop" THEN (n - f.i - (IF waiting THEN 1 ELSE 0)) * turn + 1
       ELSE IF f.pc = "delegate" THEN 2 + InMoneyWork(n)
       ELSE 1

\* the steps left to the k outermost frames of the call stack fs
RECURSIVE RemainingOf(_, _)
RemainingOf(fs, k) ==
    IF k = 0 THEN 0 ELSE RemainingOf(fs, k - 1) + Remaining(fs[k], k < Len(fs))

MeasureOf(fs) == RemainingOf(fs, Len(fs))

\* a bound on the steps left before the running call returns to the client
Measure == MeasureOf(frames)

\* a running call can always take a step
CanStep ==
    op = "running"
        => /\ frames # <<>>
           /\ \/ Top.pc \in {"return", "delegate"}
              \/ Top.pc = "loop" /\ Top.i <= Len(Top.stacks)

\* C14: every call of calculatePlayerEquity on n >= 1 stacks returns (while
\* it runs it can always take a step, and each step strictly lowers a
\* non-negative bound on the steps left), each recursive call is made on
\* exactly one stack fewer than its caller's, and the calls never nest
\* deeper than the initial number of players.
Terminates ==
    /\ [](RecursionBounded /\ CanStep /\ Measure >= 0)
    /\ [][op = "running" => MeasureOf(frames') < Measure]_vars

TerminatesWitness ==
    /\ Len(stacks) = 3
    /\ Len(frames) = 3
    /\ frames[2].fn = "calculateInMoneyEquity"
    /\ Top.pc = "return"

\* a step leaves the arrays of the client and of every call that is active
\* before and after it as they are
ArraysKept ==
    /\ stacks' = stacks
    /\ payouts' = payouts
    /\ \A k \in 1 .. Min(Len(frames), Len(frames')) :
           /\ frames'[k].stacks = frames[k].stacks
           /\ frames'[k].payouts = frames[k].payouts

\* C15: calculateICM, calculatePlayerEquity and calculateBubbleFactor never
\* change the stacks and payouts of their caller, at any level of the
\* recursion, and a call repeated with the same arguments returns the same
\* equity.
Purity ==
    /\ [][ArraysKept]_vars
    /\ [](\A j, k \in 1 .. Len(equities) : equities[j] = equities[k])

PurityWitness ==
    /\ op = "done"
    /\ Len(stacks) = 3
    /\ Len(payouts) = 2
    /\ Len(equities) = 2
    /\ equities[1] = equities[2]
    /\ Less(Zero, equities[1])

\* C16: calculatePushFoldEquity returns foldEV exactly 0, whatever its
\* arguments.
FoldEVZero == op = "calculatePushFoldEquity" => result.foldEV = Zero

FoldEVZeroWitness ==
    /\ op = "calculatePushFoldEquity"
    /\ args.blinds + args.antes > 0
    /\ args.foldEquity < 100
    /\ result.pushEV # Zero
    /\ result.foldEV = Zero

\* the effective stack, min(heroStack, villainStack)
EffectiveStack == Min(args.heroStack, args.villainStack)

\* C17: pushEV = foldEquity * pot + (1 - foldEquity) * (callEquity * (pot +
\* effectiveStack) - (1 - callEquity) * effectiveStack) with pot = blinds +
\* antes, effectiveStack = min(heroStack, villainStack) and callEquity = 0.5;
\* with foldEquity in hundredths, that is
\* (2 * foldEquity * pot + (100 - foldEquity) * ((pot + effectiveStack) -
\* effectiveStack)) / 200.
PushEVFormula ==
    op = "calculatePushFoldEquity"
        => LET pot == args.blinds + args.antes
           IN result.pushEV =
                  Norm(2 * args.foldEquity * pot
                           + (100 - args.foldEquity) * ((pot + EffectiveStack) - EffectiveStack),
                       200)

PushEVFormulaWitness ==
    /\ op = "calculatePushFoldEquity"
    /\ args.heroStack = 800
    /\ args.villainStack = 1500
    /\ args.blinds = 100
    /\ args.antes = 10
    /\ args.foldEquity = 90
    /\ result.pushEV = Norm(209, 2)

\* the set of the hands of a range
Hands(range) == {range[k] : k \in 1 .. Len(range)}

\* C18: calculateOptimalPushingRange returns the tight tier when
\* heroStack / blinds <= 8, the medium tier when 8 < heroStack / blinds <= 12,
\* the wide tier when 12 < heroStack / blinds <= 18 and the very-wide tier
\* when heroStack / blinds > 18 (also when it is Infinity), whatever
\* villainStacks, antes, position and payouts are.
PushingRangeTiers ==
    (op = "calculateOptimalPushingRange" /\ (args.blinds > 0 \/ args.heroStack > 0))
        => result.range =
               (IF args.blinds = 0 THEN getVeryWidePushRange
                ELSE IF args.heroStack <= 8 * args.blinds THEN getTightPushRange
                ELSE IF args.heroStack <= 12 * args.blinds THEN getMediumPushRange
                ELSE IF args.heroStack <= 18 * args.blinds THEN getWidePushRange
                ELSE getVeryWidePushRange)

PushingRangeTiersWitness ==
    /\ op = "calculateOptimalPushingRange"
    /\ args.heroStack = 18
    /\ args.blinds = 1
    /\ stacks # <<>>
    /\ payouts # <<>>
    /\ result.range = getWidePushRange

\* the range returned for hero stack h, the other arguments as they are
RangeFor(h) ==
    calculateOptimalPushingRange(Num(h), Nums(stacks), Num(args.blinds), Num(args.antes),
                                 args.position, Nums(payouts))

\* C19: every hand of a tier is in the next tier, which has at least one
\* hand more, and the range returned for a hero stack holds every hand of
\* the range returned for a smaller hero stack at the same blinds.
PushingRangesNested ==
    /\ Hands(getTightPushRange) \subseteq Hands(getMediumPushRange)
    /\ Hands(getTightPushRange) # Hands(getMediumPushRange)
    /\ Hands(getMediumPushRange) \subseteq Hands(getWidePushRange)
    /\ Hands(getMediumPushRange) # Hands(getWidePushRange)
    /\ Hands(getWidePushRange) \subseteq Hands(getVeryWidePushRange)
    /\ Hands(getWidePushRange) # Hands(getVeryWidePushRange)
    /\ (op = "calculateOptimalPushingRange" /\ args.blinds > 0)
           => \A h \in HeroStacks :
                  h <= args.heroStack => Hands(RangeFor(h)) \subseteq Hands(result.range)

PushingRangesNestedWitness ==
    /\ op = "calculateOptimalPushingRange"
    /\ args.blinds = 2
    /\ args.heroStack = 25
    /\ result.range = getWidePushRange
    /\ RangeFor(17) = getMediumPushRange
    /\ RangeFor(12) = getTightPushRange
    /\ Hands(RangeFor(17)) \subseteq Hands(result.range)

\* C20, as stated: a request to POST /api/icm/calculate or to
\* POST /api/icm/bubble-factor whose playerIndex is >= stacks.length is
\* answered with status 400, and the engine is not called with that index.
OutOfRangeRejected ==
    (op \in {"POST /api/icm/calculate", "POST /api/icm/bubble-factor"}
         /\ playerIndex >= Len(stacks))
        => result.status = 400 /\ ~result.invoked

\* C21: whatever the order in which the commands of the requests to
\* POST /api/icm/calculate reach the cache, a response served from the cache
\* carries the data an uncached computation for the same stacks, payouts and
\* playerIndex sends.
CacheSafety ==
    (op = "POST /api/icm/calculate" /\ result.status = ok /\ result.cached)
        => result.data =
               JSONRoundTrip(CalculateAnalysis([stacks |-> stacks, payouts |-> payouts,
                                                playerIndex |-> playerIndex]))

\* a cached response, with a null in it, sent while a request for the same
\* body that also missed the cache has yet to write it
CacheSafetyWitness ==
    /\ op = "POST /api/icm/calculate"
    /\ result.status = ok
    /\ result.cached
    /\ result.data.equityPercentage = null
    /\ \E r \in BagToSet(requests) :
           /\ r.pc = "set"
           /\ r.body.stacks = stacks
           /\ r.body.payouts = payouts
           /\ r.body.playerIndex = playerIndex

\* the lowest payout among the Len(stacks) players
LowestPayout == payouts[Len(stacks)]

\* C22: when every player is paid, all stacks are positive and no payout
\* exceeds the payout of a better place, the equity of each player is at
\* least payouts[n - 1] and at most payouts[0].
InMoneyFloor ==
    (Called /\ Len(stacks) <= Len(payouts) /\ Positive(stacks) /\ NonIncreasing(payouts))
        => /\ ~Less(result.equity, Num(LowestPayout))
           /\ ~Less(Num(payouts[1]), result.equity)
           /\ IsFinite(result.equity)

\* three players are paid 3, 2 and 1, and the player's equity lies strictly
\* between the lowest and the highest payout
InMoneyFloorWitness ==
    /\ Called
    /\ Len(stacks) = 3
    /\ payouts = <<3, 2, 1>>
    /\ Positive(stacks)
    /\ Less(Num(1), result.equity)
    /\ Less(result.equity, Num(3))

StrictlyDecreasing(s) == \A k \in 1 .. (Len(s) - 1) : s[k] > s[k + 1]

\* the player with the larger stack has the larger equity, for every two
\* players
OrderedAsStacks ==
    \A i, j \in 1 .. Len(stacks) : stacks[i] > stacks[j] => Less(equities[j], equities[i])

\* C23, as stated: with all stacks positive and strictly decreasing payouts,
\* stacks[i] > stacks[j] implies that the equity of i exceeds the equity of j.
EquityOrderAnyPrize ==
    (AllCalled /\ Positive(stacks) /\ StrictlyDecreasing(payouts)) => OrderedAsStacks

\* C23, amended: with all stacks positive, strictly decreasing payouts and a
\* first prize above zero, stacks[i] > stacks[j] implies that the equity of i
\* exceeds the equity of j.
EquityOrder ==
    (AllCalled /\ Positive(stacks) /\ StrictlyDecreasing(payouts) /\ payouts # <<>>
         /\ payouts[1] > 0)
        => OrderedAsStacks

EquityOrderWitness ==
    /\ AllCalled
    /\ stacks = <<3000, 1000, 1000>>
    /\ payouts = <<5000, 3000, 2000>>
    /\ Less(equities[2], equities[1])
    /\ equities[2] = equities[3]

\* player playerIndex holds strictly the most chips
ChipLeader ==
    \A j \in 1 .. Len(stacks) : j # playerIndex + 1 => stacks[playerIndex + 1] > stacks[j]

\* calculateICM tells a risk premium above zero
PremiumCharged == Less(result.dollarEV, result.chipEV) /\ Less(Zero, result.riskPremium)

Without(s, i) == SubSeq(s, 1, i) \o SubSeq(s, i + 2, Len(s))

\* the stack of the player the client asked about
TrackedStack == frames[1].stacks[frames[1].playerIndex + 1]

\* C25: in every recursive call made while the equity of a player of the
\* stacks is computed, the stacks are the caller's stacks without one other
\* player, the others in order, the index is an index of these stacks, and
\* the stack at the index is the stack of the player the client asked about.
IndexRemapping ==
    (frames # <<>> /\ frames[1].playerIndex < Len(frames[1].stacks))
        => \A k \in 2 .. Len(frames) :
               LET caller == frames[k - 1]
                   callee == frames[k]
               IN /\ callee.playerIndex \in 0 .. (Len(callee.stacks) - 1)
                  /\ callee.stacks[callee.playerIndex + 1] = TrackedStack
                  /\ IF caller.pc = "loop"
                     THEN /\ caller.i \in 0 .. (Len(caller.stacks) - 1)
                          /\ caller.i # caller.playerIndex
                          /\ callee.stacks = Without(caller.stacks, caller.i)
                     ELSE /\ callee.stacks = caller.stacks
                          /\ callee.playerIndex = caller.playerIndex

\* the last of three players with different stacks is followed through two
\* eliminations, down to index 0
IndexRemappingWitness ==
    /\ Len(frames) = 3
    /\ Cardinality({frames[1].stacks[k] : k \in 1 .. 3}) = 3
    /\ frames[1].playerIndex = 2
    /\ frames[2].playerIndex = 1
    /\ frames[3].playerIndex = 0
    /\ frames[3].stacks = <<TrackedStack>>

\* C26: among the elimination probabilities computed for at least two
\* positive stacks, a player with a larger stack has a smaller probability
\* than a player with a smaller stack, and players with equal stacks have
\* equal probabilities.
EliminationOrder ==
    (eliminationProbs # <<>> /\ Positive(stacks))
        => \A i, j \in 1 .. Len(stacks) :
               /\ stacks[i] > stacks[j] => Less(eliminationProbs[i], eliminationProbs[j])
               /\ stacks[i] = stacks[j] => eliminationProbs[i] = eliminationProbs[j]

EliminationOrderWitness ==
    /\ eliminationProbs # <<>>
    /\ stacks = <<2000, 1000, 1000>>
    /\ Less(eliminationProbs[1], eliminationProbs[2])
    /\ eliminationProbs[2] = eliminationProbs[3]
    /\ Less(Zero, eliminationProbs[1])

\* C28: for positive stacks and non-empty payouts the equities of all
\* players sum to the sum of the first min(n, L) payouts, and the payouts of
\* the places past the n-th go to nobody: without them every equity is the
\* same.
PaidPlacesOnly ==
    (AllCalled /\ payouts # <<>> /\ Positive(stacks))
        => /\ SumSeq(equities) = Num(SumInts(PaidPayouts))
           /\ \A k \in 1 .. Len(stacks) :
                  equities[k] = calculatePlayerEquity(Nums(stacks), Nums(PaidPayouts), k - 1)

\* one player and three prizes: the player gets the first prize only
PaidPlacesOnlyWitness ==
    /\ AllCalled
    /\ Len(stacks) = 1
    /\ stacks[1] > 0
    /\ payouts = <<3, 3, 3>>
    /\ equities = <<Num(3)>>

\* the orders in which n players can be seated: seat k is taken by player
\* f[k]
Seatings(n) == {f \in [1 .. n -> 1 .. n] : \A a, b \in 1 .. n : f[a] = f[b] => a = b}

Reseated(s, f) == Array([k \in 1 .. Len(s) |-> s[f[k]]])

\* C29: however the players are seated, the equity of a player computed on
\* the reseated stacks at the player's new index is the equity computed on
\* the stacks at the player's index.
SeatOrder ==
    AllCalled
        => \A f \in Seatings(Len(stacks)) :
               \A k \in 1 .. Len(stacks) :
                   calculatePlayerEquity(Nums(Reseated(stacks, f)), Nums(payouts), k - 1)
                       = equities[f[k]]

\* three players who all hold chips, the first fewer than the last and with
\* a smaller equity, seated in reverse
SeatOrderWitness ==
    /\ AllCalled
    /\ Len(stacks) = 3
    /\ Positive(stacks)
    /\ stacks[1] < stacks[3]
    /\ Less(equities[1], equities[3])
    /\ calculatePlayerEquity(Nums(<<stacks[3], stacks[2], stacks[1]>>), Nums(payouts), 0)
           = equities[3]

\* calculatePushFoldEquity has returned
Pushed == op = "calculatePushFoldEquity"

\* the pushEV of the arguments with heroStack, villainStack and callingRange
\* replaced
PushEVWith(heroStack, villainStack, callingRange) ==
    calculatePushFoldEquity(Num(heroStack), Num(villainStack), Num(args.blinds),
                            Num(args.antes), Hundredths(callingRange),
                            Hundredths(args.foldEquity)).pushEV

\* C30: pushEV is (blinds + antes) * (1 + foldEquity) / 2 whatever heroStack,
\* villainStack and callingRange are, and it is above zero when blinds + antes
\* is.
PushEVStackFree ==
    Pushed
        => /\ result.pushEV =
                  Norm((args.blinds + args.antes) * (100 + args.foldEquity), 200)
           /\ \A h \in HeroStacks, v \in VillainStacks, c \in CallingRanges :
                  PushEVWith(h, v, c) = result.pushEV
           /\ args.blinds + args.antes > 0 => Less(Zero, result.pushEV)

\* a short stack against a big one and a big stack against a short one push
\* for the same 101.75
PushEVStackFreeWitness ==
    /\ Pushed
    /\ args.heroStack = 1000
    /\ args.villainStack = 12
    /\ args.callingRange = 15
    /\ args.blinds = 100
    /\ args.antes = 10
    /\ args.foldEquity = 85
    /\ result.pushEV = <<407, 4>>
    /\ PushEVWith(8, 1500, 10) = <<407, 4>>

\* evaluateHand has returned an evaluation of 5 to 7 cards
Evaluated == op = "evaluateHand" /\ result.thrown = ""

\* C27, as stated: for 5 to 7 cards evaluateHand returns the category and
\* the rank of the strongest five-card hand among them.
StrongestFive ==
    Evaluated
        => /\ result.rank = getBestHand(args.cards).rank
           /\ result.category = getBestHand(args.cards).category

====
